---- MODULE Spec2Model ----
(***************************************************************************)
(* Model of dockertest/docdeps.py: the ConfigINIParser line state machine, *)
(* its de-duplication, the section-name properties, the rendering of a     *)
(* DocBase and the section filter SummaryVisitor.                          *)
(*                                                                         *)
(* A Python string is a sequence of one-character strings, so that         *)
(* rstrip/strip/startswith, the option regular expression and str.format   *)
(* are computed character by character.  Python's None is the constant     *)
(* None below, which is no character sequence.                             *)
(*                                                                         *)
(* Library semantics assumed: dict keeps insertion order and an            *)
(* overwritten key keeps its position; list.sort(cmpfunc, reverse=True) is *)
(* the stable sort by the comparison function, descending, equal elements  *)
(* kept in their original order; hash() of the (subthing, option) tuple    *)
(* does not collide on the bounded inputs; RawConfigParser is the strict   *)
(* parser of the configparser module; an exception carries the attribute   *)
(* message and its class can be constructed from one string.               *)
(* Node.walkabout of docutils dispatches the node, returns at SkipNode,    *)
(* and else walks every child of a copy of the node's list of children.    *)
(***************************************************************************)
EXTENDS Integers, Sequences, FiniteSets, TLC

\* ------------------------------------------------------------------ bounds
\* Longest input, in lines.
MaxLines == 4

\* Most calls of from_string in one run.
MaxCalls == 3

\* Most nodes of a document tree, the document included.
MaxNodes == 5

\* Most calls of str() on one instance.
MaxRenders == 2

\* ------------------------------------------------------------- characters
None == <<"None">>

Whitespace == {" ", "\t", "\n", "\r"}

WordChars ==
    {"a","b","c","d","e","f","g","h","i","j","k","l","m","n","o","p","q",
     "r","s","t","u","v","w","x","y","z","0","1","2","3","4","5","6","7",
     "8","9","_",
     "A","B","C","D","E","F","G","H","I","J","K","L","M","N","O","P","Q",
     "R","S","T","U","V","W","X","Y","Z"}

Max(S) == IF S = {} THEN 0 ELSE CHOOSE j \in S : \A k \in S : k <= j

Min(S) == IF S = {} THEN 0 ELSE CHOOSE j \in S : \A k \in S : j <= k

\* length of the longest prefix of s made of characters of set
span(s, set) ==
    LET other == {i \in 1..Len(s) : s[i] \notin set}
    IN  IF other = {} THEN Len(s) ELSE Min(other) - 1

lstrip(s) == SubSeq(s, span(s, Whitespace) + 1, Len(s))

rstrip(s) == SubSeq(s, 1, Max({i \in 1..Len(s) : s[i] \notin Whitespace}))

strip(s) == lstrip(rstrip(s))

startswith(s, p) == Len(s) >= Len(p) /\ SubSeq(s, 1, Len(p)) = p

endswith(s, p) ==
    Len(s) >= Len(p) /\ SubSeq(s, Len(s) - Len(p) + 1, Len(s)) = p

\* ---------------------------------------------------------------- DocItem
\* DocItem.fields
fields == {"subthing", "option", "desc", "value"}

empty_value == <<"<","N","o","n","e",">">>

undoc_option_doc ==
    <<"U","n","d","o","c","u","m","e","n","t","e","d"," ",
      "O","p","t","i","o","n",","," ",
      "p","l","e","a","s","e"," ","f","i","x","!">>

\* A faulty variant of DocItem: the empty value is kept.
DocItem_keep_empty(subthing, option, desc, value) ==
    [subthing |-> subthing, option |-> option, desc |-> desc, value |-> value]

\* DocItem.__new__: an empty value is replaced by empty_value
DocItem(subthing, option, desc, value) ==
    [subthing |-> subthing, option |-> option, desc |-> desc,
     value |-> IF value = <<>> THEN empty_value ELSE value]

\* DocItem.__hash__: hash of the tuple (subthing, option)
DocItemHash(docitem) == <<docitem.subthing, docitem.option>>

\* self == other: DocItem defines no __eq__ of its own, and the one it
\* inherits from the tuple of its four fields is found before __cmp__ is
\* looked for
DocItem__eq__(self, other) == \A field \in fields : self[field] = other[field]

\* ------------------------------------------------------ accumulator state
\* A faulty variant of state_complete: the four keys are counted, and their
\* values are not looked at.
state_complete_by_len(state) == DOMAIN state = fields

\* state_complete: its return value ...
state_complete(state) ==
    /\ DOMAIN state = fields
    /\ \A field \in fields : state[field] # None

\* ... and its effect on the state (desc is stripped when complete)
AfterStateComplete(state) ==
    IF state_complete(state)
    THEN [state EXCEPT !["desc"] = strip(state["desc"])]
    ELSE state

\* A faulty variant of reset_state: the section name is not taken over.
reset_state_unscoped(subthing) ==
    [subthing |-> None, desc |-> undoc_option_doc]

\* reset_state: update with DocItem(subthing, None, undoc, None), then
\* delete the keys option and value
reset_state(subthing) ==
    [subthing |-> subthing, desc |-> undoc_option_doc]

\* DocItem(**state)
DocItemOf(state) ==
    DocItem(state["subthing"], state["option"], state["desc"], state["value"])

\* ------------------------------------------------- str.format(**desc_fmt_map)
\* desc_fmt_map: the replacement text of a field name, None when the name
\* is no key of the mapping
desc_fmt_map(name) ==
    IF name = <<"n">> THEN <<"\n">>
    ELSE IF name = <<"t">> THEN <<" ", " ", " ", " ">>
    ELSE None

\* index of the first ch in s at or after position from, 0 when there is none
find(s, ch, from) == Min({i \in from..Len(s) : s[i] = ch})

\* The outcome of s.format(**desc_fmt_map): [exc |-> "" , out |-> text] or
\* [exc |-> the exception raised].  "{{" and "}}" are the escaped braces, a
\* field is the text between "{" and the next "}", looked up by name (an
\* empty name is positional, and there are no positional arguments).
\* Fields with a conversion or a format spec do not occur in Corpus.
RECURSIVE format(_)
format(s) ==
    LET at     == Min({i \in 1..Len(s) : s[i] \in {"{", "}"}})
        before == SubSeq(s, 1, at - 1)
        double == at < Len(s) /\ s[at + 1] = s[at]
        close  == find(s, "}", at + 1)
        name   == SubSeq(s, at + 1, close - 1)
        Then(text, from) ==
            LET rest == format(SubSeq(s, from, Len(s)))
            IN  IF rest.exc # "" THEN rest
                ELSE [exc |-> "", out |-> before \o text \o rest.out]
    IN  IF at = 0 THEN [exc |-> "", out |-> s]
        ELSE IF double THEN Then(<<s[at]>>, at + 2)
        ELSE IF s[at] = "}" THEN [exc |-> "ValueError"]
        ELSE IF close = 0 \/ find(name, "{", 1) # 0
        THEN [exc |-> "ValueError"]
        ELSE IF name = <<>> THEN [exc |-> "IndexError"]
        ELSE IF desc_fmt_map(name) = None THEN [exc |-> "KeyError"]
        ELSE Then(desc_fmt_map(name), close + 1)

\* ------------------------------------------------------- cfgoptval_regex
\* cfgoptval_regex.match(line): (\w+)\s*[=:]{1}\s*(.*) anchored at the start
\* of the line.  None when there is no match, else the two groups.  No
\* shorter \w+ or \s* can match when the longest does not, so the greedy
\* choice decides.
cfgoptval_regex(line) ==
    LET w     == span(line, WordChars)
        rest1 == SubSeq(line, w + 1, Len(line))
        rest2 == SubSeq(rest1, span(rest1, Whitespace) + 1, Len(rest1))
    IN  IF w >= 1 /\ rest2 # <<>> /\ Head(rest2) \in {"=", ":"}
        THEN <<SubSeq(line, 1, w), lstrip(Tail(rest2))>>
        ELSE None

\* ------------------------------------------------------------ parse_line
\* A faulty variant of Outcome: the result of the line is dropped.
Outcome_dropped(result, state) ==
    [result |-> <<>>, state |-> state, exc |-> ""]

\* A faulty variant of Outcome: the accumulator is reset whenever a result
\* is returned.
Outcome_reset(result, state) ==
    [result |-> result,
     state |-> IF result = <<>> THEN state
               ELSE reset_state(state["subthing"]),
     exc |-> ""]

\* The outcome of parse_line / parse_non_section on one line:
\*   result: <<>> for a returned None, <<docitem>> for a returned DocItem
\*   state : the accumulator afterwards
\*   exc   : "" or the exception that escaped
Outcome(result, state) == [result |-> result, state |-> state, exc |-> ""]

\* A faulty variant of continue_value: the continuation replaces the value.
continue_value_replace(value, line) == strip(lstrip(line))

\* the value after a value-continuation line: the leading blanks of the
\* line become one blank, the result is stripped
continue_value(value, line) == strip(value \o <<" ">> \o lstrip(line))

\* A faulty variant of state_for_option: the description is not reset.
state_for_option_keep_desc(state, complete) ==
    [subthing |-> state["subthing"], desc |-> state["desc"]]

\* the accumulator an option line writes its option and value into: a
\* complete one has been turned into a result and is reset to its section
state_for_option(state, complete) ==
    IF complete THEN reset_state(state["subthing"]) ELSE state

parse_non_section(line, state0) ==
    LET mobj     == cfgoptval_regex(line)
        complete == state_complete(state0)
        state    == AfterStateComplete(state0)
    IN  IF mobj = None THEN
            IF complete /\ startswith(line, <<" ", " ", " ">>)
            THEN Outcome(<<>>,
                     [state EXCEPT !["value"] =
                          continue_value(state["value"], line)])
            ELSE IF complete THEN Outcome(<<DocItemOf(state)>>, state)
            ELSE Outcome(<<>>, state)
        ELSE
            LET result == IF complete THEN <<DocItemOf(state)>> ELSE <<>>
                base   == state_for_option(state, complete)
            IN  Outcome(result,
                        [f \in fields |->
                            IF f = "option" THEN mobj[1]
                            ELSE IF f = "value" THEN mobj[2]
                            ELSE base[f]])

\* A faulty variant of join_desc: the text is appended to the placeholder
\* as to any other description.
join_desc_keep_placeholder(desc, text) == desc \o <<" ">> \o text

\* A faulty variant of join_desc: the texts are joined without the blank.
join_desc_no_blank(desc, text) ==
    IF desc = undoc_option_doc THEN text ELSE desc \o text

\* the description after a doc-comment line with the given text: the text
\* replaces the placeholder, and is appended after a blank to anything else
join_desc(desc, text) ==
    IF desc = undoc_option_doc THEN text ELSE desc \o <<" ">> \o text

parse_line(line, state0) ==
    LET complete == state_complete(state0)
        state    == AfterStateComplete(state0)
    IN  IF startswith(line, <<"[">>) /\ endswith(line, <<"]">>) THEN
            Outcome(IF complete THEN <<DocItemOf(state)>> ELSE <<>>,
                    reset_state(SubSeq(line, 2, Len(line) - 1)))
        ELSE IF startswith(line, <<"#", ":">>) THEN
            LET result == IF complete THEN <<DocItemOf(state)>> ELSE <<>>
                base   == IF complete THEN reset_state(state["subthing"])
                          ELSE state
                desc   == join_desc(base["desc"],
                                    strip(SubSeq(line, 3, Len(line))))
                fmt    == format(desc)
            IN  IF fmt.exc # ""
                THEN [result |-> <<>>,
                      state |-> [base EXCEPT !["desc"] = desc],
                      exc |-> fmt.exc]
                ELSE Outcome(result, [base EXCEPT !["desc"] = fmt.out])
        ELSE parse_non_section(line, state0)

\* --------------------------------------------------------------- _dedupe
\* dedupe_map[hash] = docitem, on a mapping kept as the sequence of its
\* (key, value) entries in insertion order
RECURSIVE index_of(_, _, _)
index_of(map, key, from) ==
    IF from > Len(map) THEN 0
    ELSE IF map[from][1] = key THEN from
    ELSE index_of(map, key, from + 1)

\* Faulty variants of dict_set: an overwritten key moves to the end; the
\* first value of a key is kept.
dict_set_move_to_end(map, key, value) ==
    Append(SelectSeq(map, LAMBDA entry : entry[1] # key), <<key, value>>)

dict_set_keep_first(map, key, value) ==
    IF index_of(map, key, 1) = 0 THEN Append(map, <<key, value>>) ELSE map

dict_set(map, key, value) ==
    LET at == index_of(map, key, 1)
    IN  IF at = 0 THEN Append(map, <<key, value>>)
        ELSE [map EXCEPT ![at] = <<key, value>>]

RECURSIVE dedupe_map(_)
dedupe_map(docitems) ==
    IF docitems = <<>> THEN <<>>
    ELSE dict_set(dedupe_map(SubSeq(docitems, 1, Len(docitems) - 1)),
                  DocItemHash(docitems[Len(docitems)]),
                  docitems[Len(docitems)])

_dedupe(docitems) ==
    LET map == dedupe_map(docitems)
    IN  [i \in 1..Len(map) |-> map[i][2]]

\* ------------------------------------------- RawConfigParser (reference)
\* The section names parser.sections() reports after parser.read / readfp
\* of the same lines, or the exception the read raises.  Full-line comments
\* start with "#" or ";", an indented line after an option continues its
\* value, a repeated section or option is an error (strict), options before
\* any section are an error, the DEFAULT section is not listed, and a line
\* that is neither header nor option is reported when the read ends.
default_section == <<"D","E","F","A","U","L","T">>

\* SECTCRE.match(value): "[", a non-empty header, "]" at the last "]" of value
rfind(s, ch) == Max({i \in 1..Len(s) : s[i] = ch})

SECTCRE(value) ==
    LET close == rfind(value, "]")
    IN  IF value # <<>> /\ Head(value) = "[" /\ close >= 3
        THEN SubSeq(value, 2, close - 1)
        ELSE None

\* _optcre.match(value): the option name is the text before the first
\* delimiter, right-stripped; None when value has no delimiter
first_delim(value) ==
    LET eq == find(value, "=", 1)
        co == find(value, ":", 1)
    IN  IF eq = 0 THEN co
        ELSE IF co = 0 THEN eq
        ELSE IF eq < co THEN eq ELSE co

OPTCRE(value) ==
    IF first_delim(value) = 0 THEN None
    ELSE rstrip(SubSeq(value, 1, first_delim(value) - 1))

read_start ==
    [cursect |-> FALSE, sectname |-> None, optname |-> None,
     indent_level |-> 0, sections |-> <<>>,
     options_added |-> {}, e |-> FALSE, exc |-> ""]

\* a section header with the given name
read_header(header, indent, r) ==
    IF \E i \in 1..Len(r.sections) : r.sections[i] = header
    THEN [r EXCEPT !.exc = "DuplicateSectionError"]
    ELSE [r EXCEPT !.cursect = TRUE, !.sectname = header,
                   !.optname = None, !.indent_level = indent,
                   !.sections = IF header = default_section THEN @
                                ELSE Append(@, header)]

\* an option line (option is its name) or a line that is no option
read_option(option, indent, r) ==
    IF option = None THEN [r EXCEPT !.indent_level = indent, !.e = TRUE]
    ELSE IF <<r.sectname, option>> \in r.options_added
    THEN [r EXCEPT !.exc = "DuplicateOptionError"]
    ELSE [r EXCEPT !.optname = option, !.indent_level = indent,
                   !.options_added = @ \cup {<<r.sectname, option>>},
                   !.e = (@ \/ option = <<>>)]

\* a line that is neither blank nor a comment: value is the stripped line,
\* indent the number of its leading blanks
read_value(value, indent, r) ==
    IF r.cursect /\ r.optname # None /\ r.optname # <<>>
       /\ indent > r.indent_level THEN r
    ELSE IF SECTCRE(value) # None THEN read_header(SECTCRE(value), indent, r)
    ELSE IF ~r.cursect THEN [r EXCEPT !.exc = "MissingSectionHeaderError"]
    ELSE read_option(OPTCRE(value), indent, r)

\* one iteration of the loop of RawConfigParser._read
read_line(line, r) ==
    IF strip(line) = <<>> \/ Head(strip(line)) \in {"#", ";"} THEN r
    ELSE read_value(strip(line), span(line, Whitespace), r)

RECURSIVE read_lines(_, _)
read_lines(lines, r) ==
    IF lines = <<>> \/ r.exc # "" THEN r
    ELSE read_lines(Tail(lines), read_line(Head(lines), r))

\* A faulty variant of read_result: only the first section is listed.
read_result_first_section(r) ==
    IF r.exc # "" THEN [exc |-> r.exc, sections |-> <<>>]
    ELSE IF r.e THEN [exc |-> "ParsingError", sections |-> <<>>]
    ELSE [exc |-> "",
          sections |-> IF r.sections = <<>> THEN <<>> ELSE <<Head(r.sections)>>]

\* what the read leaves: the exception raised, or the sections listed
read_result(r) ==
    IF r.exc # "" THEN [exc |-> r.exc, sections |-> <<>>]
    ELSE IF r.e THEN [exc |-> "ParsingError", sections |-> <<>>]
    ELSE [exc |-> "", sections |-> r.sections]

\* parser.read(...) followed by parser.sections()
RawConfigParser(lines) == read_result(read_lines(lines, read_start))

\* ------------------------------------------------- section-name properties
\* cmp(len(x), len(y))
cmp_len(x, y) ==
    IF Len(x) < Len(y) THEN -1 ELSE IF Len(x) > Len(y) THEN 1 ELSE 0

\* list.sort(cmp_len, reverse=True): descending, and stable (elements that
\* compare equal keep their original order).  Each element is inserted
\* before the first element already placed that compares smaller.
\* A faulty variant of insert_reverse: reverse=True is dropped.
RECURSIVE insert_forward(_, _)
insert_forward(sorted, x) ==
    IF sorted = <<>> THEN <<x>>
    ELSE IF cmp_len(Head(sorted), x) > 0 THEN <<x>> \o sorted
    ELSE <<Head(sorted)>> \o insert_forward(Tail(sorted), x)

RECURSIVE insert_reverse(_, _)
insert_reverse(sorted, x) ==
    IF sorted = <<>> THEN <<x>>
    ELSE IF cmp_len(Head(sorted), x) < 0 THEN <<x>> \o sorted
    ELSE <<Head(sorted)>> \o insert_reverse(Tail(sorted), x)

RECURSIVE sort_reverse(_)
sort_reverse(names) ==
    IF names = <<>> THEN <<>>
    ELSE insert_reverse(sort_reverse(SubSeq(names, 1, Len(names) - 1)),
                        names[Len(names)])

\* A cache attribute is <<>> while it is None and <<value>> once set.
\* An outcome is [exc |-> "", value |-> returned] or [exc |-> raised], with
\* the caches as the access leaves them.
Returned(value, names, subtest, subsub) ==
    [exc |-> "", value |-> value,
     names |-> names, subtest |-> subtest, subsub |-> subsub]

Raised(exc, names, subtest, subsub) ==
    [exc |-> exc, value |-> <<>>,
     names |-> names, subtest |-> subtest, subsub |-> subsub]

\* subthing_names with an empty cache: parser is what the reference parser
\* reports
read_subthing_names(parser, names, subtest, subsub) ==
    IF parser.exc # "" THEN Raised(parser.exc, names, subtest, subsub)
    ELSE IF Len(parser.sections) < 1
    THEN Raised("IOError", names, subtest, subsub)
    ELSE Returned(sort_reverse(parser.sections),
                  <<sort_reverse(parser.sections)>>, subtest, subsub)

\* property subthing_names
get_subthing_names(lines, names, subtest, subsub) ==
    IF names # <<>> THEN Returned(names[1], names, subtest, subsub)
    ELSE read_subthing_names(RawConfigParser(lines), names, subtest, subsub)

\* A faulty variant of find_subtest_name: any two names of equal length
\* are taken for an ambiguity.
find_subtest_name_any_tie(got, subtest, subsub) ==
    IF got.exc # "" THEN got
    ELSE IF Len(got.value) = 1
    THEN Returned(got.value[1], got.names, subtest, subsub)
    ELSE IF \E i, j \in 1..Len(got.value) :
                i # j /\ Len(got.value[i]) = Len(got.value[j])
    THEN Raised("IOError", got.names, subtest, subsub)
    ELSE Returned(got.value[Len(got.value)], got.names,
                  <<got.value[Len(got.value)]>>, subsub)

\* subtest_name with an empty cache: got is the outcome of subthing_names
find_subtest_name(got, subtest, subsub) ==
    IF got.exc # "" THEN got
    ELSE IF Len(got.value) = 1
    THEN Returned(got.value[1], got.names, subtest, subsub)
    ELSE IF \E i \in 1..(Len(got.value) - 1) :
                Len(got.value[i]) = Len(got.value[Len(got.value)])
    THEN Raised("IOError", got.names, subtest, subsub)
    ELSE Returned(got.value[Len(got.value)], got.names,
                  <<got.value[Len(got.value)]>>, subsub)

\* property subtest_name
get_subtest_name(lines, names, subtest, subsub) ==
    IF subtest # <<>> THEN Returned(subtest[1], names, subtest, subsub)
    ELSE find_subtest_name(
             get_subthing_names(lines, names, subtest, subsub),
             subtest, subsub)

\* A faulty variant of other_names: the subtest is not left out.
other_names_unfiltered(all, name) == {all[i] : i \in 1..Len(all)}

\* the names of all that differ from name
other_names(all, name) ==
    {all[i] : i \in {j \in 1..Len(all) : all[j] # name}}

\* subsub_names with an empty cache and two or more sections: all is
\* subthing_names, name the outcome of subtest_name.  The tuple returned
\* enumerates a set in no specified order, so the value is that set.
collect_subsub_names(all, name) ==
    IF name.exc # "" THEN name
    ELSE Returned(other_names(all, name.value), name.names, name.subtest,
                  <<other_names(all, name.value)>>)

\* subsub_names with an empty cache: got is the outcome of subthing_names
filter_subsub_names(got, lines, subtest, subsub) ==
    IF got.exc # "" THEN got
    ELSE IF Len(got.value) = 1
    THEN Returned({}, got.names, subtest, subsub)
    ELSE collect_subsub_names(
             got.value, get_subtest_name(lines, got.names, subtest, subsub))

\* property subsub_names
get_subsub_names(lines, names, subtest, subsub) ==
    IF subsub # <<>> THEN Returned(subsub[1], names, subtest, subsub)
    ELSE filter_subsub_names(
             get_subthing_names(lines, names, subtest, subsub),
             lines, subtest, subsub)

\* ---------------------------------------------------------------- DocBase
\* A mapping is the sequence of its (key, value) entries in insertion order,
\* as in _dedupe.  An attribute that may be None is <<>> while it is None
\* and <<mapping>> once set.  A method is what it returns: an entry of
\* sub_method is (key, method(key)), an entry of sub_method_args is the pair
\* (key, value) that method(*args) returns.
RECURSIVE dict_update(_, _)
dict_update(dct, other) ==
    IF other = <<>> THEN dct
    ELSE dict_update(dict_set(dct, Head(other)[1], Head(other)[2]),
                     Tail(other))

\* key in dct, and dct[key]
dict_has(dct, key) == index_of(dct, key, 1) # 0

dict_get(dct, key) == dct[index_of(dct, key, 1)][2]

\* the mapping an attribute contributes, {} while it is None
get_sub_str_dct(sub_str) ==
    IF sub_str = <<>> THEN <<>> ELSE dict_update(<<>>, sub_str[1])

get_sub_method_dct(sub_method) ==
    IF sub_method = <<>> THEN <<>> ELSE dict_update(<<>>, sub_method[1])

get_sub_method_args_dct(sub_method_args) ==
    IF sub_method_args = <<>> THEN <<>>
    ELSE dict_update(<<>>, sub_method_args[1])

\* A faulty variant of merge_dct: the static strings are merged last.
merge_dct_static_last(strs, methods, pairs) ==
    dict_update(dict_update(dict_update(<<>>, methods), pairs), strs)

\* dct of __str__ after its three updates
merge_dct(strs, methods, pairs) ==
    dict_update(dict_update(dict_update(<<>>, strs), methods), pairs)

\* The outcome of a formatting: the text, or the exception raised and its
\* message.
Formatted(out) == [exc |-> "", out |-> out, message |-> <<>>]

Failed(exc, message) == [exc |-> exc, out |-> <<>>, message |-> message]

\* input_string % dct for a mapping of strings.  "%%" is a percent sign and
\* "%(key)s" the value of key; the key is looked up when its ")" is read,
\* before the conversion character; "%(key)d" wants a number and the values
\* are strings.  The fields are formatted from left to right and the first
\* failure is the one raised.  A field without a key, flags, widths and
\* parentheses within a key do not occur in Templates.
RECURSIVE percent(_, _)
percent(s, dct) ==
    LET at    == find(s, "%", 1)
        close == find(s, ")", at + 2)
        key   == SubSeq(s, at + 2, close - 1)
        Then(text, from) ==
            LET rest == percent(SubSeq(s, from, Len(s)), dct)
            IN  IF rest.exc # "" THEN rest
                ELSE Formatted(SubSeq(s, 1, at - 1) \o text \o rest.out)
    IN  IF at = 0 THEN Formatted(s)
        ELSE IF at = Len(s) THEN Failed("ValueError", <<"incomplete format">>)
        ELSE IF s[at + 1] = "%" THEN Then(<<"%">>, at + 2)
        ELSE IF s[at + 1] # "("
        THEN Failed("ValueError", <<"unsupported format character">>)
        ELSE IF close = 0
        THEN Failed("ValueError", <<"incomplete format key">>)
        ELSE IF ~dict_has(dct, key) THEN Failed("KeyError", key)
        ELSE IF close = Len(s)
        THEN Failed("ValueError", <<"incomplete format">>)
        ELSE IF s[close + 1] = "s" THEN Then(dict_get(dct, key), close + 2)
        ELSE IF s[close + 1] = "d"
        THEN Failed("TypeError", <<"%d format: a number is required">>)
        ELSE Failed("ValueError", <<"unsupported format character">>)

\* A faulty variant of reraise: the failure is swallowed and the template
\* returned as it is.
reraise_swallowed(xcept, input_string, dct) == Formatted(input_string)

\* raise xcept.__class__("%s: fmt='%s' with dct='%s'" % (...)): the message
\* is kept as the three texts it is made of
reraise(xcept, input_string, dct) ==
    Failed(xcept.exc, <<xcept.message, input_string, dct>>)

do_sub_str_result(result, input_string, dct) ==
    IF result.exc = "" THEN result ELSE reraise(result, input_string, dct)

do_sub_str(input_string, dct) ==
    do_sub_str_result(percent(input_string, dct), input_string, dct)

\* DocBase.conv: nothing by default
conv(input_string) == input_string

\* self.conv: DocBase.conv unless the subclass overrides it.  Two overriding
\* methods stand for all: one puts its input between brackets, one ends its
\* output with a newline, as a writer of documents does.
self_conv(name, input_string) ==
    IF name = "conv" THEN conv(input_string)
    ELSE IF name = "brackets" THEN <<"[">> \o input_string \o <<"]">>
    ELSE input_string \o <<"\n">>

\* A faulty variant of converted: the text is stripped before conv is called.
converted_strip_first(name, output_string) ==
    self_conv(name, strip(output_string))

\* self.conv(output_string).strip()
converted(name, output_string) == strip(self_conv(name, output_string))

\* __str__ from the substitution on: conv and strip of what was substituted
str_result(name, output_string) ==
    IF output_string.exc # "" THEN output_string
    ELSE Formatted(converted(name, output_string.out))

str_substituted(self, dct) ==
    IF dct # <<>> THEN str_result(self.conv, do_sub_str(self.fmt, dct))
    ELSE str_result(self.conv, Formatted(self.fmt))

\* the merged mapping of an instance, and what str(instance) gives
dct_of(self) ==
    merge_dct(get_sub_str_dct(self.sub_str),
              get_sub_method_dct(self.sub_method),
              get_sub_method_args_dct(self.sub_method_args))

DocBase__str__(self) == str_substituted(self, dct_of(self))

\* A faulty variant of sub_str_after: dct is self.sub_str itself, and the
\* values of the methods are written into it.
sub_str_after_shared(sub_str, dct) ==
    IF sub_str = <<>> THEN sub_str ELSE <<dct>>

\* self.sub_str after __str__: dct is a mapping of its own ("don't
\* use/modify them"), the updates leave the attributes as they are
sub_str_after(sub_str, dct) == sub_str

\* --------------------------------------------------------- SummaryVisitor
\* A document tree is the sequence of its nodes, the document being node 1.
\* A node has its tag name, its list of ids, its parent (0 for the
\* document) and the list of its children.
NewNode(tagname, ids, parent) ==
    [tagname |-> tagname, ids |-> ids, parent |-> parent, children |-> <<>>]

exclude_names ==
    << <<"o","p","e","r","a","t","i","o","n","a","l"," ",
         "d","e","t","a","i","l">>,
       <<"p","r","e","r","e","q","u","i","s","i","t","e","s">>,
       <<"c","o","n","f","i","g","u","r","a","t","i","o","n">> >>

\* docutils.nodes.make_id of a name made of lower-case letters, digits and
\* single blanks: every other character becomes a hyphen
make_id(string) ==
    [i \in 1..Len(string) |->
        IF string[i] \in WordChars \ {"_"} THEN string[i] ELSE "-"]

\* SummaryVisitor.xids
xids == [i \in 1..Len(exclude_names) |-> make_id(exclude_names[i])]

\* list.remove(item): the list without the first element equal to item
list_remove(list, item) ==
    SubSeq(list, 1, Min({i \in 1..Len(list) : list[i] = item}) - 1)
        \o SubSeq(list, Min({i \in 1..Len(list) : list[i] = item}) + 1,
                  Len(list))

\* visit_section raises SkipNode: one of the ids of the node is in xids
skips(ids) ==
    \E i \in 1..Len(ids) : \E x \in 1..Len(xids) : ids[i] = xids[x]

\* node.parent.remove(node)
parent_remove(tree, node) ==
    [tree EXCEPT ![tree[node].parent].children = list_remove(@, node)]

\* A faulty variant of iterated: the loop runs over the list of children
\* itself, not over a copy of it.
iterated_live(copy, live) == live

\* for child in children[:]: the list the loop of walkabout runs over
iterated(copy, live) == copy

\* Node.walkabout(visitor) of docutils with a SummaryVisitor: the node is
\* dispatched to the visitor, which acts on a section only (every other
\* visit and every departure of a SparseNodeVisitor does nothing); after
\* SkipNode neither the children are walked nor the departure is called;
\* else each child of a copy of the list of children is walked in turn.
\* w is [tree, visited]: the tree as it is and the nodes dispatched so far.
RECURSIVE walkabout(_, _)
RECURSIVE walk_children(_, _, _, _)
walkabout(node, w) ==
    IF w.tree[node].tagname = "section" /\ skips(w.tree[node].ids)
    THEN [tree |-> parent_remove(w.tree, node),
          visited |-> Append(w.visited, node)]
    ELSE walk_children(node, w.tree[node].children, 1,
                       [w EXCEPT !.visited = Append(@, node)])

walk_children(node, copy, i, w) ==
    IF i > Len(iterated(copy, w.tree[node].children)) THEN w
    ELSE walk_children(node, copy, i + 1,
             walkabout(iterated(copy, w.tree[node].children)[i], w))

\* ----------------------------------------------------------------- inputs
\* The nodes a document tree is made of: a paragraph, a section that is
\* kept, a section with the id of an excluded name, and a section whose
\* second id is the id of the excluded name with a blank.
NodeKinds ==
    { [tagname |-> "paragraph", ids |-> <<>>],
      [tagname |-> "section", ids |-> << <<"u","s","a","g","e">> >>],
      [tagname |-> "section",
       ids |-> << <<"c","o","n","f","i","g","u","r","a","t","i","o","n">> >>],
      [tagname |-> "section",
       ids |-> << <<"i","d","1">>,
                  <<"o","p","e","r","a","t","i","o","n","a","l","-",
                    "d","e","t","a","i","l">> >>] }

\* The lines an input is made of when the line state machine is examined:
\* two section headers, doc-comments (one without text, one with trailing
\* blanks, one with braces that name no substitution, one with the {n}
\* token, one whose text is the placeholder itself), options (one with an
\* empty value, one with ":" and trailing blanks), a continuation line and
\* a junk line.
Corpus ==
    { <<"[","a","]">>,
      <<"[","b","c","]">>,
      <<"#",":"," ","x">>,
      <<"#",":","y"," ">>,
      <<"#",":">>,
      <<"#",":"," ","{","z","}">>,
      <<"#",":"," ","x","{","n","}">>,
      <<"#",":"," ">> \o undoc_option_doc,
      <<"k","=","1">>,
      <<"k"," ","=">>,
      <<"j",":"," ","2"," ">>,
      <<" "," "," ","c">>,
      <<";">> }

\* The lines an input is made of when the parser is called again and
\* again: a header, a doc-comment and an option.
\* the lines of descriptions with the tokens of desc_fmt_map and with
\* escaped braces
TokensCorpus ==
    { <<"[","a","]">>,
      <<"#",":"," ","x","{","n","}","y">>,
      <<"#",":"," ","{","t","}","y">>,
      <<"#",":"," ","{","{","n","}","}">>,
      <<"#",":"," ","z">>,
      <<"k","=","1">> }

AgainCorpus ==
    { <<"[","a","]">>,
      <<"#",":"," ","x">>,
      <<"k","=","1">> }

\* The renderers: templates with one and two keys (one with blanks around
\* it), an escaped percent sign, a key that is never closed, a number
\* field, a lone percent sign and no field at all; the keys a and b; and
\* for each attribute None and mappings that share keys with the others.
Templates ==
    { <<"%","(","a",")","s">>,
      <<" ","%","(","a",")","s","-","%","(","b",")","s"," ">>,
      <<"%","(","a",")","s","%","%">>,
      <<"%","(","a">>,
      <<"%","(","a",")","d">>,
      <<"x","%">>,
      <<"x">> }

SubStrs ==
    { <<>>,
      << <<>> >>,
      << << <<<<"a">>, <<"1">>>> >> >>,
      << << <<<<"a">>, <<"1">>>>, <<<<"b">>, <<"1">>>> >> >> }

SubMethods ==
    { <<>>,
      << << <<<<"a">>, <<"2">>>> >> >>,
      << << <<<<"b">>, <<"2">>>> >> >> }

SubMethodArgs ==
    { <<>>,
      << << <<<<"a">>, <<"3">>>> >> >>,
      << << <<<<"b">>, <<"3">>>> >> >> }

\* the conv methods of subclasses that override DocBase.conv
Convs == {"brackets", "newline"}

\* The lines an input is made of when the section names are examined:
\* headers of one, two and three characters, the DEFAULT header, an option.
NamesCorpus ==
    { <<"[","a","]">>,
      <<"[","b","]">>,
      <<"[","c","d","]">>,
      <<"[","e","f","]">>,
      <<"[","g","h","i","]">>,
      <<"[","D","E","F","A","U","L","T","]">>,
      <<"k","=","1">> }

\* ------------------------------------------------------------------ state
VARIABLES
    corpus,           \* the lines the input is drawn from
    ini_lines,        \* the lines of the input read so far (_ini_string)
    state,            \* the accumulator of _new__docitems
    docitems,         \* the list docitems of _new__docitems
    pc,               \* "parsing", "done" (constructed) or "raised"
    exc,              \* the exception that ended the parse, "" if none
    newone,           \* the tuple the ConfigINIParser instance holds
    _subthing_names,  \* cache of property subthing_names
    _subtest_name,    \* cache of property subtest_name
    _subsub_names,    \* cache of property subsub_names
    ret,              \* the last outcome of each property, <<>> before
    calls,            \* the calls of from_string so far, this one included
    kept,             \* <<>> or <<an earlier call: its input and outcome>>
    doc,              \* a DocBase instance: fmt, the three sub_* mappings,
                      \* and the conv method of its class
    rendered,         \* <<>> or <<the outcome of the last str(doc)>>
    renders,          \* the calls of str(doc) since doc was set up
    doctree,          \* the nodes of a document tree, the document first
    walk              \* <<>> or <<the tree before the walk, the nodes visited>>

vars == <<corpus, ini_lines, state, docitems, pc, exc, newone,
          _subthing_names, _subtest_name, _subsub_names, ret, calls, kept,
          doc, rendered, renders, doctree, walk>>

rendering == <<doc, rendered, renders>>

walking == <<doctree, walk>>

caches == <<_subthing_names, _subtest_name, _subsub_names>>

InitFrom(lineset) ==
    /\ corpus = lineset
    /\ ini_lines = <<>>
    /\ state = reset_state(None)
    /\ docitems = <<>>
    /\ pc = "parsing"
    /\ exc = ""
    /\ newone = <<>>
    /\ _subthing_names = <<>>
    /\ _subtest_name = <<>>
    /\ _subsub_names = <<>>
    /\ ret = [subthing_names |-> <<>>, subtest_name |-> <<>>,
              subsub_names |-> <<>>]
    /\ calls = 1
    /\ kept = <<>>
    /\ doc = [fmt |-> <<>>, sub_str |-> <<>>, sub_method |-> <<>>,
              sub_method_args |-> <<>>, conv |-> "conv"]
    /\ rendered = <<>>
    /\ renders = 0
    /\ doctree = <<NewNode("document", <<>>, 0)>>
    /\ walk = <<>>

Init == InitFrom(Corpus)

InitNames == InitFrom(NamesCorpus)

InitAgain == InitFrom(AgainCorpus)

InitTokens == InitFrom(TokensCorpus)

\* _new__docitems: one iteration of the loop over the input
ReadLine ==
    /\ pc = "parsing"
    /\ Len(ini_lines) < MaxLines
    /\ \E line \in corpus :
         LET out == parse_line(rstrip(line), state)
         IN  /\ ini_lines' = Append(ini_lines, line)
             /\ state' = out.state
             /\ IF out.exc # ""
                THEN /\ pc' = "raised"
                     /\ exc' = out.exc
                     /\ docitems' = docitems
                ELSE /\ pc' = "parsing"
                     /\ exc' = exc
                     /\ docitems' = docitems \o out.result
    /\ UNCHANGED <<corpus, newone, caches, ret, calls, kept, rendering,
                   walking>>

\* _new__docitems after the loop, and the construction of the instance
EndOfInput ==
    /\ pc = "parsing"
    /\ LET final == IF state_complete(state)
                    THEN Append(docitems,
                                DocItemOf(AfterStateComplete(state)))
                    ELSE docitems
       IN  /\ docitems' = final
           /\ newone' = _dedupe(final)
    /\ state' = AfterStateComplete(state)
    /\ pc' = "done"
    /\ UNCHANGED <<corpus, ini_lines, exc, caches, ret, calls, kept,
                   rendering, walking>>

\* an access of one of the three properties of the constructed instance
Access(name, got) ==
    /\ pc = "done"
    /\ _subthing_names' = got.names
    /\ _subtest_name' = got.subtest
    /\ _subsub_names' = got.subsub
    /\ ret' = [ret EXCEPT ![name] = <<[exc |-> got.exc, value |-> got.value]>>]
    /\ UNCHANGED <<corpus, ini_lines, state, docitems, pc, exc, newone,
                   calls, kept, rendering, walking>>

subthing_names ==
    Access("subthing_names",
           get_subthing_names(ini_lines, _subthing_names, _subtest_name,
                              _subsub_names))

subtest_name ==
    Access("subtest_name",
           get_subtest_name(ini_lines, _subthing_names, _subtest_name,
                            _subsub_names))

subsub_names ==
    Access("subsub_names",
           get_subsub_names(ini_lines, _subthing_names, _subtest_name,
                            _subsub_names))

\* A faulty variant of new_state: the accumulator of the call before is
\* used again.
new_state_shared(old) == old

\* _new__docitems, before the loop: state = {} and reset_state(state)
new_state(old) == reset_state(None)

\* The call that ended, as the caller saw it: the input, the exception
\* that escaped and the collection returned.
ThisCall == [lines |-> ini_lines, exc |-> exc, newone |-> newone]

\* a further call of from_string, after the one before has returned or
\* raised: its locals and its instance are new
from_string ==
    /\ pc \in {"done", "raised"}
    /\ calls < MaxCalls
    /\ calls' = calls + 1
    /\ kept' \in (IF kept = <<>> THEN {<<>>, <<ThisCall>>} ELSE {kept})
    /\ ini_lines' = <<>>
    /\ docitems' = <<>>
    /\ state' = new_state(state)
    /\ pc' = "parsing"
    /\ exc' = ""
    /\ newone' = <<>>
    /\ _subthing_names' = <<>>
    /\ _subtest_name' = <<>>
    /\ _subsub_names' = <<>>
    /\ ret' = [subthing_names |-> <<>>, subtest_name |-> <<>>,
               subsub_names |-> <<>>]
    /\ UNCHANGED <<corpus, rendering, walking>>

Next ==
    \/ ReadLine
    \/ EndOfInput
    \/ subthing_names
    \/ subtest_name
    \/ subsub_names

Spec == Init /\ [][Next]_vars

\* the construction of the instance alone (the properties leave the parsed
\* collection as it is)
Construct ==
    \/ ReadLine
    \/ EndOfInput

SpecParse == Init /\ [][Construct]_vars

SpecTokens == InitTokens /\ [][Construct]_vars

SpecNames == InitNames /\ [][Next]_vars

\* the parser called again and again
Again ==
    \/ ReadLine
    \/ EndOfInput
    \/ from_string

SpecAgain == InitAgain /\ [][Again]_vars

parsing == <<corpus, ini_lines, state, docitems, pc, exc, newone,
             _subthing_names, _subtest_name, _subsub_names, ret, calls, kept>>

\* a subclass of DocBase sets the four attributes
Subclass ==
    /\ \E fmt \in Templates, sub_str \in SubStrs, sub_method \in SubMethods,
          sub_method_args \in SubMethodArgs :
           doc' = [fmt |-> fmt, sub_str |-> sub_str,
                   sub_method |-> sub_method,
                   sub_method_args |-> sub_method_args, conv |-> "conv"]
    /\ rendered' = <<>>
    /\ renders' = 0
    /\ UNCHANGED <<parsing, walking>>

\* the subclass overrides conv
Override ==
    /\ doc.conv = "conv"
    /\ \E name \in Convs : doc' = [doc EXCEPT !.conv = name]
    /\ rendered' = <<>>
    /\ renders' = 0
    /\ UNCHANGED <<parsing, walking>>

\* str(doc), once more
__str__ ==
    /\ renders < MaxRenders
    /\ rendered' = <<DocBase__str__(doc)>>
    /\ doc' = [doc EXCEPT !.sub_str = sub_str_after(@, dct_of(doc))]
    /\ renders' = renders + 1
    /\ UNCHANGED <<parsing, walking>>

\* docutils.core.publish_doctree(rst), node by node: one more node becomes
\* the last child of the document or of a section
AddNode ==
    /\ walk = <<>>
    /\ Len(doctree) < MaxNodes
    /\ \E parent \in 1..Len(doctree), kind \in NodeKinds :
           /\ doctree[parent].tagname \in {"document", "section"}
           /\ doctree' =
                  [Append(doctree, NewNode(kind.tagname, kind.ids, parent))
                      EXCEPT ![parent].children = Append(@, Len(doctree) + 1)]
    /\ UNCHANGED <<walk, parsing, rendering>>

\* rst2doctree(rst, SummaryVisitor): doctree.walkabout(visitor(doctree))
rst2doctree ==
    /\ walk = <<>>
    /\ \E w \in {walkabout(1, [tree |-> doctree, visited |-> <<>>])} :
           /\ doctree' = w.tree
           /\ walk' = <<[before |-> doctree, visited |-> w.visited]>>
    /\ UNCHANGED <<parsing, rendering>>

Filter ==
    \/ AddNode
    \/ rst2doctree

SpecFilter == Init /\ [][Filter]_vars

Render ==
    \/ Subclass
    \/ __str__

SpecRender == Init /\ [][Render]_vars

Convert ==
    \/ Subclass
    \/ Override
    \/ __str__

SpecConvert == Init /\ [][Convert]_vars

\* ================================================================ claims
\* The input as the claims describe it: line i as the parser sees it, its
\* kind, the section it lies in and the (section, option) pair it sets.
Line(i) == rstrip(ini_lines[i])

IsHeader(l) == startswith(l, <<"[">>) /\ endswith(l, <<"]">>)

IsDoc(l) == ~IsHeader(l) /\ startswith(l, <<"#", ":">>)

IsOption(l) == ~IsHeader(l) /\ ~IsDoc(l) /\ cfgoptval_regex(l) # None

IsContinuation(l) ==
    /\ ~IsHeader(l) /\ ~IsDoc(l) /\ cfgoptval_regex(l) = None
    /\ startswith(l, <<" ", " ", " ">>)

\* the last section header before line i, 0 when there is none
HeaderBefore(i) == Max({j \in 1..(i - 1) : IsHeader(Line(j))})

SectionOf(i) ==
    SubSeq(Line(HeaderBefore(i)), 2, Len(Line(HeaderBefore(i))) - 1)

\* the option lines that lie under a section header
OptionLines ==
    {i \in 1..Len(ini_lines) : IsOption(Line(i)) /\ HeaderBefore(i) # 0}

KeyOf(i) == <<SectionOf(i), cfgoptval_regex(Line(i))[1]>>

\* the option lines that are the first, and the last, with their pair
FirstLines ==
    {i \in OptionLines : \A j \in OptionLines : j < i => KeyOf(j) # KeyOf(i)}

LastLines ==
    {i \in OptionLines : \A j \in OptionLines : j > i => KeyOf(j) # KeyOf(i)}

NthOf(S, n) == CHOOSE i \in S : Cardinality({j \in S : j <= i}) = n

\* the item of the final collection with the pair of option line i
ItemsOf(i) ==
    {n \in 1..Len(newone) : DocItemHash(newone[n]) = KeyOf(i)}

\* C1: the final collection holds exactly one DocItem for each distinct
\* (section, option) pair set by an option line under a section header, no
\* other item, and the items are in the order of the first occurrence of
\* their pair in the input.
C1_OnePerPairInFirstOccurrenceOrder ==
    pc = "done" =>
        /\ Len(newone) = Cardinality(FirstLines)
        /\ \A n \in 1..Len(newone) :
               DocItemHash(newone[n]) = KeyOf(NthOf(FirstLines, n))

\* an input with two pairs, one of them set twice
C1_Witness ==
    /\ pc = "done"
    /\ Len(newone) = 2
    /\ Cardinality(OptionLines) > Cardinality(FirstLines)

\* C2: for every pair that occurs in the emitted sequence the final
\* collection holds exactly one item, it is the latest emitted item with
\* that pair (desc and value included), and it stands where the first
\* occurrence of the pair stands among the distinct pairs.
EmittedWith(key) == {j \in 1..Len(docitems) : DocItemHash(docitems[j]) = key}

EmittedFirsts ==
    {j \in 1..Len(docitems) :
        j = Min(EmittedWith(DocItemHash(docitems[j])))}

C2_LastWriteWinsAtFirstPosition ==
    pc = "done" =>
        /\ Len(newone) = Cardinality(EmittedFirsts)
        /\ \A n \in 1..Len(newone) :
               LET first == NthOf(EmittedFirsts, n)
                   key   == DocItemHash(docitems[first])
               IN  newone[n] = docitems[Max(EmittedWith(key))]

\* a pair emitted twice with different values, another pair in between
C2_Witness ==
    /\ pc = "done"
    /\ \E j, m, k \in 1..Len(docitems) :
           /\ j < m /\ m < k
           /\ DocItemHash(docitems[j]) = DocItemHash(docitems[k])
           /\ DocItemHash(docitems[j]) # DocItemHash(docitems[m])
           /\ docitems[j].value # docitems[k].value

\* C3: the parser never raises, whatever the lines are.
C3_ParserNeverRaises == pc # "raised"

\* the line before option line i that starts its description afresh: the
\* later of the preceding option line and section header
PrevStart(i) ==
    Max({j \in 1..(i - 1) : IsHeader(Line(j)) \/ IsOption(Line(j))})

\* the first header, doc-comment or option line after line i (the line
\* that ends the option of line i), one past the input when there is none
NextStart(i) ==
    LET later == {j \in (i + 1)..Len(ini_lines) :
                     IsHeader(Line(j)) \/ IsDoc(Line(j)) \/ IsOption(Line(j))}
    IN  IF later = {} THEN Len(ini_lines) + 1 ELSE Min(later)

\* the doc-comment lines that describe option line i, and their texts
DocLines(i) == {j \in (PrevStart(i) + 1)..(i - 1) : IsDoc(Line(j))}

TextOf(j) == strip(SubSeq(Line(j), 3, Len(Line(j))))

RECURSIVE JoinTexts(_)
JoinTexts(S) ==
    IF S = {} THEN <<>>
    ELSE IF S = {Max(S)} THEN TextOf(Max(S))
    ELSE JoinTexts(S \ {Max(S)}) \o <<" ">> \o TextOf(Max(S))

NoBraces(i) ==
    \A j \in DocLines(i) :
        \A c \in 1..Len(TextOf(j)) : TextOf(j)[c] \notin {"{", "}"}

\* no description accumulated from the doc-comment lines of option line i
\* is the placeholder text
NeverPlaceholder(i) ==
    \A j \in DocLines(i) :
        JoinTexts({m \in DocLines(i) : m <= j}) # undoc_option_doc

\* C4 as stated: with k >= 1 doc-comment lines since the previous option
\* line or header, desc is the trimmed texts joined by single spaces.
C4_DescIsJoinedTexts ==
    pc = "done" =>
        \A i \in LastLines : DocLines(i) # {} =>
            \A n \in ItemsOf(i) : newone[n].desc = JoinTexts(DocLines(i))

\* C4 (amended): with k >= 1 doc-comment lines since the previous option
\* line or header, whose texts hold no braces and whose accumulated
\* description never equals the placeholder, desc is the trimmed texts
\* joined by single spaces and then stripped of surrounding whitespace.
C4_DescIsJoinedTextsStripped ==
    pc = "done" =>
        \A i \in LastLines :
            DocLines(i) # {} /\ NoBraces(i) /\ NeverPlaceholder(i) =>
                \A n \in ItemsOf(i) :
                    newone[n].desc = strip(JoinTexts(DocLines(i)))

\* two doc-comment lines with different texts describe an option
C4_Witness ==
    /\ pc = "done"
    /\ \E i \in LastLines :
           /\ Cardinality(DocLines(i)) = 2
           /\ NoBraces(i) /\ NeverPlaceholder(i)
           /\ TextOf(Min(DocLines(i))) # TextOf(Max(DocLines(i)))
           /\ TextOf(Min(DocLines(i))) # <<>>
           /\ TextOf(Max(DocLines(i))) # <<>>
           /\ ItemsOf(i) # {}

\* C5: an option line under a section with no doc-comment line since the
\* previous option line or header yields desc = the placeholder; the
\* description of the previous option does not carry over.
C5_UndocumentedGetsPlaceholder ==
    pc = "done" =>
        \A i \in LastLines : DocLines(i) = {} =>
            \A n \in ItemsOf(i) : newone[n].desc = undoc_option_doc

\* an undocumented option right after a documented one
C5_Witness ==
    /\ pc = "done"
    /\ \E i \in LastLines :
           /\ DocLines(i) = {}
           /\ PrevStart(i) \in OptionLines
           /\ DocLines(PrevStart(i)) # {}
           /\ ItemsOf(i) # {}

\* the value continuation lines of option line i
ContLines(i) ==
    {j \in (i + 1)..(NextStart(i) - 1) : IsContinuation(Line(j))}

ValueOf(i) == cfgoptval_regex(Line(i))[2]

\* C6: no DocItem has the empty string as its value; an option line with
\* an empty value and no continuation line yields the value '<None>'.
C6_EmptyValueBecomesNone ==
    /\ \A n \in 1..Len(docitems) : docitems[n].value # <<>>
    /\ \A n \in 1..Len(newone) : newone[n].value # <<>>
    /\ pc = "done" =>
           \A i \in LastLines : ValueOf(i) = <<>> /\ ContLines(i) = {} =>
               \A n \in ItemsOf(i) : newone[n].value = empty_value

\* an option line with an empty value, not continued, is in the result
C6_Witness ==
    /\ pc = "done"
    /\ \E i \in LastLines :
           /\ ValueOf(i) = <<>> /\ ContLines(i) = {}
           /\ \E n \in ItemsOf(i) : newone[n].value = empty_value

\* the option value and the texts of the continuation lines in S, in source
\* order, separated by single spaces
RECURSIVE JoinValue(_, _)
JoinValue(i, S) ==
    IF S = {} THEN ValueOf(i)
    ELSE JoinValue(i, S \ {Max(S)}) \o <<" ">> \o lstrip(Line(Max(S)))

\* C7: an option line followed directly by one or more continuation lines
\* yields the option's value followed by the texts of the continuation
\* lines, in source order, separated by single spaces, trimmed.
C7_ValueContinuation ==
    pc = "done" =>
        \A i \in LastLines :
            /\ ContLines(i) # {}
            /\ ContLines(i) = (i + 1)..(NextStart(i) - 1)
            => \A n \in ItemsOf(i) :
                   newone[n].value = strip(JoinValue(i, ContLines(i)))

\* an option with a value, followed by two continuation lines
C7_Witness ==
    /\ pc = "done"
    /\ \E i \in LastLines :
           /\ Cardinality(ContLines(i)) = 2
           /\ ContLines(i) = (i + 1)..(NextStart(i) - 1)
           /\ ValueOf(i) # <<>>
           /\ ItemsOf(i) # {}

\* ------------------------------------------------ section-name claims
\* what the reference parser reports for the input
Sections == RawConfigParser(ini_lines)

Names == Sections.sections

NameSet == {Names[i] : i \in 1..Len(Names)}

\* some other section is as short as the shortest one
ShortestTie ==
    \E i, j \in 1..Len(Names) :
        /\ i # j
        /\ Len(Names[i]) = Len(Names[j])
        /\ \A k \in 1..Len(Names) : Len(Names[k]) >= Len(Names[i])

\* two of the longer names have the same length
LongerTie ==
    \E i, j, k \in 1..Len(Names) :
        /\ i # j
        /\ Len(Names[i]) = Len(Names[j])
        /\ Len(Names[k]) < Len(Names[i])

Called(name) == ret[name] # <<>>

Got(name) == ret[name][1]

HeaderLines == {i \in 1..Len(ini_lines) : IsHeader(Line(i))}

NameAt(i) == SubSeq(Line(i), 2, Len(Line(i)) - 1)

FirstLineOf(name) == Min({i \in HeaderLines : NameAt(i) = name})

\* all is an arrangement of the names of the header lines in H by
\* non-increasing length, names of equal length in source order
SortedNamesOf(all, H) ==
    /\ {all[p] : p \in 1..Len(all)} = {NameAt(i) : i \in H}
    /\ \A p, q \in 1..Len(all) : p < q =>
           /\ Len(all[p]) >= Len(all[q])
           /\ Len(all[p]) = Len(all[q]) =>
                  FirstLineOf(all[p]) < FirstLineOf(all[q])

C11_NoSectionAccessRaisesIOError ==
    pc = "done" /\ HeaderLines = {} =>
        /\ newone = <<>>
        /\ _subthing_names = <<>>
        /\ Called("subthing_names") =>
               Got("subthing_names").exc = "IOError"

\* C12: a call of the parser on the content of an earlier call, whatever
\* was parsed in between, ends as the earlier call did: the same exception,
\* or the same sequence of DocItems, equal field by field.
C12_SameContentSameItems ==
    pc \in {"done", "raised"} /\ kept # <<>> /\ kept[1].lines = ini_lines =>
        /\ exc = kept[1].exc
        /\ pc = "done" =>
               /\ Len(newone) = Len(kept[1].newone)
               /\ \A n \in 1..Len(newone) : \A f \in fields :
                      newone[n][f] = kept[1].newone[n][f]

\* the third call parses a documented option that an earlier call parsed
C12_Witness ==
    /\ pc = "done" /\ calls = 3
    /\ kept # <<>> /\ kept[1].lines = ini_lines
    /\ Len(newone) = 1
    /\ newone[1].desc # undoc_option_doc

\* the pair (subthing, option) of a DocItem
PairOf(docitem) == <<docitem.subthing, docitem.option>>

\* C13: two DocItems are equal, and have equal hashes, if and only if they
\* have the same (subthing, option), whatever their desc and value.
C13_EqualIffSamePair ==
    \A i, j \in 1..Len(docitems) :
        /\ DocItem__eq__(docitems[i], docitems[j])
               <=> PairOf(docitems[i]) = PairOf(docitems[j])
        /\ DocItemHash(docitems[i]) = DocItemHash(docitems[j])
               <=> PairOf(docitems[i]) = PairOf(docitems[j])

\* ------------------------------------------------------ rendering claims
\* the outcome of the last str(doc)
Rendered == rendered[1]

\* the format keys of Templates, the field of a key as it stands in a
\* template, and the mapping that has every key
FormatKeys == {<<"a">>, <<"b">>}

FieldOf(key) == <<"%", "(">> \o key \o <<")", "s">>

Contains(s, part) ==
    \E i \in 1..(Len(s) - Len(part) + 1) :
        SubSeq(s, i, i + Len(part) - 1) = part

AllKeys == << <<<<"a">>, <<"1">>>>, <<<<"b">>, <<"1">>>> >>

\* the template is one that formats once every key has a value
WellFormed(fmt) == percent(fmt, AllKeys).exc = ""

MissingKeys ==
    {key \in FormatKeys :
        Contains(doc.fmt, FieldOf(key)) /\ ~dict_has(dct_of(doc), key)}

\* C14: a format key of a well-formed template that has no entry in the
\* merged mapping does not make the rendering fail: its field stands in
\* the output as it stands in the template.
C14_MissingKeyPassesThrough ==
    rendered # <<>> /\ WellFormed(doc.fmt) =>
        \A key \in MissingKeys :
            /\ Rendered.exc = ""
            /\ Contains(Rendered.out, FieldOf(key))

\* the value the latest source gives a key: a pair-returning method, else a
\* per-key method, else a static string
LatestValue(key) ==
    IF dict_has(get_sub_method_args_dct(doc.sub_method_args), key)
    THEN dict_get(get_sub_method_args_dct(doc.sub_method_args), key)
    ELSE IF dict_has(get_sub_method_dct(doc.sub_method), key)
    THEN dict_get(get_sub_method_dct(doc.sub_method), key)
    ELSE dict_get(get_sub_str_dct(doc.sub_str), key)

\* the sources that produce a key
SourcesOf(key) ==
    {n \in 1..3 :
        dict_has(<<get_sub_str_dct(doc.sub_str),
                   get_sub_method_dct(doc.sub_method),
                   get_sub_method_args_dct(doc.sub_method_args)>>[n], key)}

\* the template with every field of a key replaced by the value the latest
\* source gives the key, and every "%%" by "%"
RECURSIVE Substituted(_)
Substituted(s) ==
    IF s = <<>> THEN <<>>
    ELSE IF startswith(s, <<"%", "%">>)
    THEN <<"%">> \o Substituted(SubSeq(s, 3, Len(s)))
    ELSE IF \E key \in FormatKeys : startswith(s, FieldOf(key))
    THEN LET key == CHOOSE k \in FormatKeys : startswith(s, FieldOf(k))
         IN  LatestValue(key)
                 \o Substituted(SubSeq(s, Len(FieldOf(key)) + 1, Len(s)))
    ELSE <<Head(s)>> \o Substituted(Tail(s))

\* C15: the three sources are merged in the order sub_str, sub_method,
\* sub_method_args: whenever the rendering returns, every field of the
\* template holds the value of the latest source that produces its key.
C15_LatestSourceWins ==
    rendered # <<>> /\ Rendered.exc = "" /\ dct_of(doc) # <<>> =>
        Rendered.out = strip(Substituted(doc.fmt))

\* a key of the template is produced by all three sources, with three
\* different values, and the rendering returned
C15_Witness ==
    /\ rendered # <<>> /\ Rendered.exc = ""
    /\ \E key \in FormatKeys :
           /\ Contains(doc.fmt, FieldOf(key))
           /\ SourcesOf(key) = {1, 2, 3}
           /\ dict_get(doc.sub_str[1], key) # dict_get(doc.sub_method[1], key)
           /\ LatestValue(key) # dict_get(doc.sub_method[1], key)
           /\ Contains(Rendered.out, LatestValue(key))

Before == walk[1].before

Visited == {walk[1].visited[i] : i \in 1..Len(walk[1].visited)}

ExcludedIds ==
    { <<"o","p","e","r","a","t","i","o","n","a","l","-",
        "d","e","t","a","i","l">>,
      <<"p","r","e","r","e","q","u","i","s","i","t","e","s">>,
      <<"c","o","n","f","i","g","u","r","a","t","i","o","n">> }

SectionsOf(tree) == {n \in 1..Len(tree) : tree[n].tagname = "section"}

\* the section carries an excluded id
Excluded(n) ==
    /\ n \in SectionsOf(Before)
    /\ \E i \in 1..Len(Before[n].ids) : Before[n].ids[i] \in ExcludedIds

\* the node lies inside a section that carries an excluded id
RECURSIVE InsideExcluded(_)
InsideExcluded(n) ==
    /\ n # 1
    /\ Excluded(Before[n].parent) \/ InsideExcluded(Before[n].parent)

\* the node is reached from the document through the lists of children
RECURSIVE InTree(_)
InTree(n) ==
    \/ n = 1
    \/ /\ \E i \in 1..Len(doctree[doctree[n].parent].children) :
              doctree[doctree[n].parent].children[i] = n
       /\ InTree(doctree[n].parent)

\* C17: after the walk with the section filter the sections left in the
\* tree are the sections of the tree before the walk that neither carry an
\* excluded id nor lie inside a section that does, and no node inside a
\* removed section has been visited.
C17_ExactlyExcludedSectionsRemoved ==
    walk # <<>> =>
        /\ {n \in SectionsOf(doctree) : InTree(n)}
               = {n \in SectionsOf(Before) :
                     ~Excluded(n) /\ ~InsideExcluded(n)}
        /\ \A n \in 1..Len(Before) : InsideExcluded(n) => n \notin Visited

\* a retained section holds two adjacent excluded sections, the first of
\* which holds a node
C17_Witness ==
    /\ walk # <<>>
    /\ \E k, e, f, p \in 2..Len(Before) :
           /\ k \in SectionsOf(Before) /\ ~Excluded(k) /\ InTree(k)
           /\ Before[k].children = <<e, f>>
           /\ Excluded(e) /\ Excluded(f)
           /\ Before[e].ids # Before[f].ids
           /\ Before[e].children = <<p>>

\* ------------------------------------------------- line by line claims
\* the step reads one more line: the line as the parser sees it, and the
\* accumulator before the step as state_complete leaves it
ReadsLine == pc = "parsing" /\ Len(ini_lines') = Len(ini_lines) + 1

LineRead == rstrip(ini_lines'[Len(ini_lines')])

Complete == DOMAIN state = fields /\ state["subthing"] # None

\* the step appends one item, made of the accumulator before the step
EmitsAccumulator ==
    /\ Len(docitems') = Len(docitems) + 1
    /\ SubSeq(docitems', 1, Len(docitems)) = docitems
    /\ docitems'[Len(docitems')].subthing = state["subthing"]
    /\ docitems'[Len(docitems')].option = state["option"]
    /\ docitems'[Len(docitems')].desc = strip(state["desc"])
    /\ docitems'[Len(docitems')].value =
           (IF state["value"] = <<>> THEN empty_value ELSE state["value"])

\* C18: on a section header line a complete accumulator is emitted as it
\* is, with the name of the section before, and nothing is emitted
\* otherwise; afterwards the accumulator is incomplete, its subthing is the
\* new name and its desc the placeholder, whatever doc-comment lines came
\* before the header.
C18_HeaderEmitsPreviousAndResets ==
    [][ReadsLine /\ IsHeader(LineRead) =>
           /\ pc' = "parsing"
           /\ IF Complete THEN EmitsAccumulator ELSE docitems' = docitems
           /\ ~state_complete(state')
           /\ DOMAIN state' = {"subthing", "desc"}
           /\ state'["subthing"] = SubSeq(LineRead, 2, Len(LineRead) - 1)
           /\ state'["desc"] = undoc_option_doc]_vars

\* a header has been read after an option of another section and a
\* doc-comment line: the option is emitted under its own section and the
\* description is gone
C18_Witness ==
    /\ pc = "parsing" /\ Len(ini_lines) = 4
    /\ IsHeader(Line(4)) /\ IsDoc(Line(3)) /\ TextOf(3) # <<>>
    /\ 2 \in OptionLines
    /\ docitems # <<>>
    /\ docitems[Len(docitems)].subthing = SectionOf(2)
    /\ SectionOf(2) # state["subthing"]
    /\ state["desc"] = undoc_option_doc

\* C19: a doc-comment line read when an option is pending, and read without
\* an exception, emits the option with the description it had before the
\* line, and leaves a fresh accumulator of the same section: no option, no
\* value, and the text of the line alone as its description.
C19_DocAfterOptionStartsAfresh ==
    [][ReadsLine /\ IsDoc(LineRead) /\ Complete /\ pc' = "parsing" =>
           /\ EmitsAccumulator
           /\ DOMAIN state' = {"subthing", "desc"}
           /\ state'["subthing"] = state["subthing"]
           /\ (\A c \in 1..Len(LineRead) : LineRead[c] \notin {"{", "}"})
                  => state'["desc"] = strip(SubSeq(LineRead, 3, Len(LineRead)))
      ]_vars

\* a documented option, then a doc-comment line with another text: the
\* option is emitted with its own description and the new text is pending
C19_Witness ==
    /\ pc = "parsing" /\ Len(ini_lines) = 4
    /\ IsHeader(Line(1)) /\ IsDoc(Line(2)) /\ 3 \in OptionLines
    /\ IsDoc(Line(4))
    /\ TextOf(2) # <<>> /\ TextOf(4) # <<>> /\ TextOf(2) # TextOf(4)
    /\ NoBraces(3)
    /\ Len(docitems) = 1
    /\ docitems[1].desc = TextOf(2)
    /\ state["desc"] = TextOf(4)
    /\ DOMAIN state = {"subthing", "desc"}

\* the junk lines that follow option line i before the next header,
\* doc-comment or option line
JunkLines(i) ==
    {j \in (i + 1)..(NextStart(i) - 1) : ~IsContinuation(Line(j))}

\* the emissions of the option lines in S: one for each when it is ended,
\* and one for every junk line that follows it
RECURSIVE Emissions(_)
Emissions(S) ==
    IF S = {} THEN 0
    ELSE 1 + Cardinality(JunkLines(Max(S))) + Emissions(S \ {Max(S)})

\* C20 as stated: in the emitted sequence of one parse the completed state
\* of each option line under a section stands exactly once, in source
\* order, whatever follows the option line.
C20_EmittedExactlyOnce ==
    pc = "done" =>
        /\ Len(docitems) = Cardinality(OptionLines)
        /\ \A n \in 1..Len(docitems) :
               DocItemHash(docitems[n]) = KeyOf(NthOf(OptionLines, n))

\* C20 (amended): in the emitted sequence of one parse the completed state
\* of each option line under a section stands once for the header,
\* doc-comment line, option line or end of input that ends it, and once
\* more for every junk line that follows it before that; continuation
\* lines emit nothing.
C20_EmittedOncePerJunkLineAndEnd ==
    pc = "done" =>
        /\ Len(docitems) = Emissions(OptionLines)
        /\ \A i \in OptionLines :
               \A n \in (Emissions({j \in OptionLines : j < i}) + 1)
                            ..Emissions({j \in OptionLines : j <= i}) :
                   DocItemHash(docitems[n]) = KeyOf(i)

\* an option line followed by a junk line, a continuation line and the end
\* of input: its state has been emitted twice, the second time with the
\* value continued
C20_Witness ==
    /\ pc = "done"
    /\ \E i \in OptionLines :
           /\ Cardinality(JunkLines(i)) = 1
           /\ ContLines(i) # {}
           /\ Min(JunkLines(i)) < Min(ContLines(i))
           /\ Len(docitems) = 2
           /\ docitems[1].value # docitems[2].value

\* ------------------------------------------------ accumulator invariants
\* the four fields are present in the accumulator and none of them is None
AllPresent ==
    /\ \A field \in fields : field \in DOMAIN state
    /\ \A field \in DOMAIN state : state[field] # None

\* C21: in every reachable state the accumulator has the keys subthing and
\* desc, and desc is not None; it has the key option if and only if it has
\* the key value; state_complete is true exactly when the four fields are
\* present and not None; and reset_state to the section of the accumulator,
\* or to no section, gives an incomplete accumulator, so that the assertion
\* of reset_state holds.
C21_AccumulatorShape ==
    /\ {"subthing", "desc"} \subseteq DOMAIN state
    /\ DOMAIN state \subseteq fields
    /\ state["desc"] # None
    /\ "option" \in DOMAIN state <=> "value" \in DOMAIN state
    /\ state_complete(state) <=> AllPresent
    /\ \A subthing \in {None, state["subthing"]} :
           /\ ~state_complete(reset_state(subthing))
           /\ DOMAIN reset_state(subthing) = {"subthing", "desc"}

\* an option line has been read after another option had been emitted and
\* the accumulator reset: the accumulator is complete again, with an empty
\* value that is not None
C21_Witness ==
    /\ pc = "parsing"
    /\ state_complete(state) /\ AllPresent
    /\ state["value"] = <<>>
    /\ docitems # <<>>
    /\ docitems[Len(docitems)].option # state["option"]

\* ------------------------------------------------- tokens of descriptions
\* the texts of the doc-comment lines in S, each substituted once, joined by
\* single blanks
RECURSIVE JoinSubstituted(_)
JoinSubstituted(S) ==
    IF S = {} THEN <<>>
    ELSE IF S = {Max(S)} THEN format(TextOf(Max(S))).out
    ELSE JoinSubstituted(S \ {Max(S)}) \o <<" ">>
             \o format(TextOf(Max(S))).out

\* C22: the description of an option whose doc-comment lines can each be
\* substituted is the texts of these lines, each substituted exactly once,
\* joined by single blanks (and stripped as every description is):
\* substituting the accumulated description again after every doc-comment
\* line changes nothing.
C22_SubstitutedOncePerLine ==
    pc = "done" =>
        \A i \in LastLines :
            /\ DocLines(i) # {}
            /\ \A j \in DocLines(i) : format(TextOf(j)).exc = ""
            => \A n \in ItemsOf(i) :
                   newone[n].desc = strip(JoinSubstituted(DocLines(i)))

\* ------------------------------------------------ conversion and rendering
\* what the template of doc is after its substitution: the template itself
\* when the merged mapping is empty
SubstitutedTemplate ==
    IF dct_of(doc) = <<>> THEN doc.fmt ELSE Substituted(doc.fmt)

\* C23: whenever the rendering returns, its output is the conv of the
\* class applied to the substituted template, with the surrounding
\* whitespace removed after the conversion; with DocBase.conv it is
\* exactly the substituted template without its surrounding whitespace.
C23_ConvertedThenTrimmed ==
    rendered # <<>> /\ Rendered.exc = "" =>
        /\ Rendered.out = strip(self_conv(doc.conv, SubstitutedTemplate))
        /\ doc.conv = "conv" => Rendered.out = strip(SubstitutedTemplate)

\* a template with blanks around its fields, rendered by a subclass whose
\* conv puts brackets around its input: the blanks are inside the
\* brackets, and are kept
C23_Witness ==
    /\ rendered # <<>> /\ Rendered.exc = ""
    /\ doc.conv = "brackets"
    /\ dct_of(doc) # <<>>
    /\ strip(SubstitutedTemplate) # SubstitutedTemplate
    /\ Rendered.out = <<"[">> \o SubstitutedTemplate \o <<"]">>

\* C24: a call of str() leaves fmt, sub_str, sub_method and sub_method_args
\* (and the conv of the class) as they were, and from the second call on it
\* gives what the call before it gave.
C24_RenderingChangesNothing ==
    [][renders' = renders + 1 =>
           /\ doc' = doc
           /\ renders >= 1 => rendered' = rendered]_vars

\* rendered twice, with a static string, a per-key method and a
\* pair-returning method that all take part in the output
C24_Witness ==
    /\ renders = 2
    /\ rendered # <<>> /\ Rendered.exc = ""
    /\ doc.sub_str # <<>> /\ doc.sub_str[1] # <<>>
    /\ doc.sub_method # <<>> /\ doc.sub_method_args # <<>>
    /\ dct_of(doc) # doc.sub_str[1]
    /\ Rendered.out # strip(doc.fmt)

\* ------------------------------------------------------------ junk lines
\* the line read is junk to the accumulator before the step: no header, no
\* doc-comment line, no option line, and no continuation of a pending option
ReadsJunk ==
    /\ ReadsLine
    /\ ~IsHeader(LineRead) /\ ~IsDoc(LineRead) /\ ~IsOption(LineRead)
    /\ ~(IsContinuation(LineRead) /\ Complete)

\* the step leaves the keys of the accumulator, and all its values but the
\* description, as they are
KeepsOptionAndValue ==
    /\ DOMAIN state' = DOMAIN state
    /\ \A field \in DOMAIN state \ {"desc"} : state'[field] = state[field]

\* the value of every option in the final collection that has continuation
\* lines, junk lines between them or not, is extended by all of them
ValuesExtended ==
    pc = "done" =>
        \A i \in LastLines : ContLines(i) # {} =>
            \A n \in ItemsOf(i) :
                newone[n].value = strip(JoinValue(i, ContLines(i)))

\* C25: a junk line leaves subthing, option and value of the accumulator as
\* they are, whether it emits or not: it emits a complete accumulator, which
\* is complete afterwards too, and emits nothing else; so the continuation
\* lines after a junk line extend the value as those before it, and the
\* final collection holds the value extended by all of them.
C25_JunkKeepsOptionAndValue ==
    /\ []ValuesExtended
    /\ [][ReadsJunk =>
              /\ pc' = "parsing"
              /\ KeepsOptionAndValue
              /\ IF Complete
                 THEN EmitsAccumulator /\ state_complete(state')
                 ELSE docitems' = docitems]_vars

\* an option line, a junk line, a continuation line: the final collection
\* holds the value of the option line extended by the continuation line
C25_Witness ==
    /\ pc = "done"
    /\ \E i \in LastLines :
           /\ JunkLines(i) # {} /\ ContLines(i) # {}
           /\ Min(JunkLines(i)) = i + 1
           /\ Min(ContLines(i)) = i + 2
           /\ ValueOf(i) # <<>>
           /\ \E n \in ItemsOf(i) :
                  /\ newone[n].value # ValueOf(i)
                  /\ newone[n].value = strip(JoinValue(i, ContLines(i)))

\* ------------------------------------------- the two section discoveries
\* the names subthing_names has returned, and the subthings of the items
\* of the parsed collection
NamesGot ==
    {Got("subthing_names").value[i] :
         i \in 1..Len(Got("subthing_names").value)}

Subthings == {newone[n].subthing : n \in 1..Len(newone)}

====
